---- MODULE Spec2Model ----
(***************************************************************************)
(* A model of requirementz.py: the requirement collection (Requirementz),  *)
(* requirement equality / hashing / version comparison (RequirementPlus),  *)
(* the status line (StatusLine), the backup-on-write file writer           *)
(* (SafeWriter), the --sort and --add commands on the requirements file,   *)
(* and the batches that ask the registry (show_package_infos,              *)
(* check_requirements with latest).                                        *)
(*                                                                         *)
(* Python str values are modelled as sequences of code points, so that     *)
(* str.lower(), str comparison and sorted() are computed as Python         *)
(* computes them.  "A" is <<65>>, "a" is <<97>>, "1.0" is <<49, 46, 48>>.  *)
(***************************************************************************)
EXTENDS Integers, Sequences, FiniteSets, TLC

VARIABLES
    reqs,      \* Requirementz.data: the list of RequirementPlus
    last,      \* the most recent call on the collection: op, argument,
               \* the list before the call and what the call returned/raised
    dupes,     \* the dict returned by the most recent duplicates() call
    cmp,       \* the most recent compare_versions call and its result
    PKGS,      \* the installed package snapshot {name.lower(): package}
    status,    \* the most recent StatusLine built
    target,    \* file system: content of <target>, or Absent
    bak,       \* file system: content of <target>.bak, or Absent
    sw,        \* the SafeWriter in use by Requirementz.write, and its position
    origin,    \* how the collection was constructed: "new" (empty) or "file"
    kept,      \* the content of the backup the last failed write left behind
    cmd,       \* the running command on the requirements file (sort, add)
    batch      \* the running batch over packages (pypi info, check latest)

vars == <<reqs, last, dupes, cmp, PKGS, status, target, bak, sw, origin, kept, cmd, batch>>

---------------------------------------------------------------------------
(* Bounds of the model. *)

\* Longest requirements file read by from_file.
MaxFileLines == 4
\* Longest collection add_line may grow (append is not taken beyond it).
MaxReqs == 4
\* Most dot-separated segments of a version string.
MaxSegs == 3
\* Most (op, ver) pairs of a requirement whose status is built.
MaxSpecs == 2
\* Most writes of the requirements file in a row.
MaxWrites == 2

---------------------------------------------------------------------------
(* Python str, as sequences of code points. *)

Min(a, b) == IF a <= b THEN a ELSE b

\* str.lower() for ASCII letters.
str_lower(s) ==
    [i \in DOMAIN s |-> IF s[i] \in 65..90 THEN s[i] + 32 ELSE s[i]]

\* str.__lt__: lexicographic by code point, a proper prefix is smaller.
\* (Also the order of Python tuples/lists of ints.)
str_lt(s, t) ==
    \E i \in 1..(Min(Len(s), Len(t)) + 1) :
        /\ \A j \in 1..(i - 1) : s[j] = t[j]
        /\ \/ i > Len(s) /\ i <= Len(t)
           \/ i <= Len(s) /\ i <= Len(t) /\ s[i] < t[i]

str_endswith(s, c) == Len(s) > 0 /\ s[Len(s)] = c

\* sep.join(parts)
RECURSIVE str_join(_, _)
str_join(sep, parts) ==
    IF Len(parts) = 0 THEN <<>>
    ELSE IF Len(parts) = 1 THEN parts[1]
    ELSE parts[1] \o sep \o str_join(sep, Tail(parts))

\* The elements of a sequence, as a set: set(seq).
ToSet(seq) == {seq[i] : i \in DOMAIN seq}

---------------------------------------------------------------------------
(* Version strings and their comparison. *)

\* The comparison operators of a requirement line.
OP_EQ == <<61, 61>>
OP_GE == <<62, 61>>
OP_LE == <<60, 61>>
OP_GT == <<62>>
OP_LT == <<60>>
\* An operator OP_FUNCS has no entry for: "!=".
OP_NE == <<33, 61>>

KnownOps == {OP_EQ, OP_GE, OP_LE, OP_GT, OP_LT}

\* str(int) for a one-digit number, and its inverse int(str).
digit_str(n) == <<48 + n>>

\* The text of the version with numeric segments segs: "1.0.0" for <<1,0,0>>.
ver_str(segs) ==
    str_join(<<46>>, [i \in DOMAIN segs |-> digit_str(segs[i])])

\* s.split(".")
RECURSIVE str_split_dot(_)
str_split_dot(s) ==
    IF \A i \in DOMAIN s : s[i] # 46 THEN <<s>>
    ELSE LET k == CHOOSE i \in DOMAIN s :
                      s[i] = 46 /\ \A j \in 1..(i - 1) : s[j] # 46
         IN  <<SubSeq(s, 1, k - 1)>> \o str_split_dot(SubSeq(s, k + 1, Len(s)))

\* int(s) for a string of decimal digits.
RECURSIVE str_int(_)
str_int(s) ==
    IF Len(s) = 0 THEN 0
    ELSE 10 * str_int(SubSeq(s, 1, Len(s) - 1)) + (s[Len(s)] - 48)

\* The release tuple of a numeric version string: (1, 0, 0) for "1.0.0".
release(v) ==
    LET parts == str_split_dot(v)
    IN  [i \in DOMAIN parts |-> str_int(parts[i])]

\* Trailing zero segments dropped, as the version's comparison key drops them.
RECURSIVE strip_zeros(_)
strip_zeros(t) ==
    IF Len(t) > 0 /\ t[Len(t)] = 0 THEN strip_zeros(SubSeq(t, 1, Len(t) - 1))
    ELSE t

\* The release tuple compared as written, trailing zeros kept.
parse_version_unstripped(v) == release(v)

\* pkg_resources.parse_version: the key two versions are compared by.
parse_version(v) == strip_zeros(release(v))

\* Python's order on tuples of ints.
tuple_lt(a, b) == str_lt(a, b)

\* OP_FUNCS[op](v1, v2), for op one of the five keys.
OP_FUNCS(op, v1, v2) ==
    LET p1 == parse_version(v1)
        p2 == parse_version(v2)
    IN  CASE op = OP_EQ -> p1 = p2
          [] op = OP_GE -> p1 = p2 \/ tuple_lt(p2, p1)
          [] op = OP_LE -> p1 = p2 \/ tuple_lt(p1, p2)
          [] op = OP_GT -> tuple_lt(p2, p1)
          [] op = OP_LT -> tuple_lt(p1, p2)

\* RequirementPlus.compare_versions: OP_FUNCS.get(op, OP_FUNCS['>='])
compare_versions(ver1, op, ver2) ==
    IF op \in KnownOps THEN OP_FUNCS(op, ver1, ver2)
    ELSE OP_FUNCS(OP_GE, ver1, ver2)

---------------------------------------------------------------------------
(* Requirement lines and RequirementPlus. *)

\* A line of text, by what requirements-parser makes of it: kind "req" is a
\* well-formed standard entry `name[extras] op ver, op ver`, kind "bad" is a
\* line Requirement.parse raises ValueError for.
Line(kind, name, extras, specs) ==
    [kind |-> kind, name |-> name, extras |-> extras, specs |-> specs]

BadLine == Line("bad", <<61, 61>>, <<>>, <<>>)

\* RequirementPlus.parse(line) raises ValueError.
parse_raises(line) == line.kind # "req"

\* RequirementPlus.parse(line): name, extras and the list of (op, ver) pairs.
parse(line) ==
    [name |-> line.name, extras |-> line.extras, specs |-> line.specs]

\* RequirementPlus.__eq__
__eq__(self, other) == ToSet(self.specs) = ToSet(other.specs)

\* RequirementPlus.spec_string(color=False)
spec_string(self) ==
    str_join(<<44>>,
             [i \in DOMAIN self.specs |->
                 self.specs[i][1] \o <<32>> \o self.specs[i][2]])

\* RequirementPlus.to_str(color=False) of a normal pip package.
to_str(self) ==
    LET extras == IF Len(self.extras) > 0
                  THEN <<91>> \o str_join(<<44, 32>>, self.extras) \o <<93>>
                  ELSE <<>>
    IN  self.name \o extras \o <<32>> \o spec_string(self)

\* A hash that follows __eq__: of the specs alone.
__hash___by_specs(self) == spec_string(self)

\* RequirementPlus.__hash__: hash(str(self)); the hash of a str is taken to
\* differ for different strings.
__hash__(self) == to_str(self)

\* The text of a line as it stands in a requirements file.
line_text(line) == IF line.kind = "req" THEN to_str(parse(line)) ELSE line.name

---------------------------------------------------------------------------
(* sorted() *)

\* The stable ascending order of keys (strings), as indices into keys:
\* sorted(range(len(keys)), key=keys.__getitem__).
RECURSIVE sort_perm(_)
sort_perm(keys) ==
    IF Len(keys) = 0 THEN <<>>
    ELSE LET n == Len(keys)
             p == sort_perm(SubSeq(keys, 1, n - 1))
             k == Cardinality({i \in 1..Len(p) : ~ str_lt(keys[n], keys[p[i]])})
         IN  SubSeq(p, 1, k) \o <<n>> \o SubSeq(p, k + 1, Len(p))

\* sorted(lines)
sorted_lines(lines) ==
    LET p == sort_perm([i \in DOMAIN lines |-> line_text(lines[i])])
    IN  [i \in DOMAIN lines |-> lines[p[i]]]

\* A sort by name that is not stable: entries of one name come out in the
\* reverse of their order in the list.
sorted_by_name_unstable(data) ==
    LET n == Len(data)
        rev == [i \in DOMAIN data |-> data[n + 1 - i]]
        p == sort_perm([i \in DOMAIN rev |-> rev[i].name])
    IN  [i \in DOMAIN rev |-> rev[p[i]]]

\* sorted(data, key=lambda r: r.name)
sorted_by_name(data) ==
    LET p == sort_perm([i \in DOMAIN data |-> data[i].name])
    IN  [i \in DOMAIN data |-> data[p[i]]]

---------------------------------------------------------------------------
(* Requirementz *)

\* Requirementz.from_lines raises (a line does not parse).
from_lines_raises(lines) == \E i \in DOMAIN lines : parse_raises(lines[i])

\* Requirementz.from_lines(lines)
from_lines(lines) ==
    LET s == sorted_lines(lines)
    IN  [i \in DOMAIN s |-> parse(s[i])]

\* Requirementz.names()
names(data) == [i \in DOMAIN data |-> data[i].name]

\* tuple.count(x)
count(seq, x) == Cardinality({i \in DOMAIN seq : seq[i] = x})

NoReq == [name |-> <<>>, extras |-> <<>>, specs |-> <<>>]

\* Requirementz.get_byname(name): the first requirement of that name (NoReq
\* stands for None).
get_byname(data, name) ==
    IF \E i \in DOMAIN data : data[i].name = name
    THEN data[CHOOSE i \in DOMAIN data :
                  /\ data[i].name = name
                  /\ \A j \in 1..(i - 1) : data[j].name # name]
    ELSE NoReq

\* Names compared as stored, without lower().
name_matches_case_sensitive(data, req) ==
    {i \in DOMAIN data : req.name = data[i].name}

\* The indices add_line's loop stops at: entries whose lowercased name is the
\* new requirement's lowercased name.
name_matches(data, req) ==
    {i \in DOMAIN data : str_lower(req.name) = str_lower(data[i].name)}

\* The index at which add_line's loop finds the existing requirement: the
\* first entry of that name.
add_line_found(data, req) ==
    CHOOSE i \in name_matches(data, req) :
        \A j \in name_matches(data, req) : i <= j

RetTrue == "True"
RetFalse == "False"
RaiseInvalid == "ValueError: Invalid requirement spec."
RaiseAlready == "ValueError: Already a requirement"

\* add_line replacing by remove-and-append instead of in place.
add_line_moves(data, line) ==
    IF parse_raises(line)
    THEN [data |-> data, ret |-> RaiseInvalid]
    ELSE LET req == parse(line)
         IN  IF name_matches(data, req) # {}
             THEN LET i == add_line_found(data, req)
                  IN  IF __eq__(req, data[i])
                      THEN [data |-> data, ret |-> RaiseAlready]
                      ELSE [data |-> Append(SubSeq(data, 1, i - 1)
                                            \o SubSeq(data, i + 1, Len(data)),
                                            req),
                            ret |-> RetFalse]
             ELSE [data |-> Append(data, req), ret |-> RetTrue]

\* add_line appending the new requirement where it should replace the entry
\* of its name.
add_line_appends(data, line) ==
    IF parse_raises(line)
    THEN [data |-> data, ret |-> RaiseInvalid]
    ELSE LET req == parse(line)
         IN  IF name_matches(data, req) # {}
             THEN LET i == add_line_found(data, req)
                  IN  IF __eq__(req, data[i])
                      THEN [data |-> data, ret |-> RaiseAlready]
                      ELSE [data |-> Append(data, req), ret |-> RetFalse]
             ELSE [data |-> Append(data, req), ret |-> RetTrue]

\* add_line storing the new requirement before it raises 'Already a
\* requirement'.
add_line_stores_then_raises(data, line) ==
    IF parse_raises(line)
    THEN [data |-> data, ret |-> RaiseInvalid]
    ELSE LET req == parse(line)
         IN  IF name_matches(data, req) # {}
             THEN LET i == add_line_found(data, req)
                  IN  IF __eq__(req, data[i])
                      THEN [data |-> [data EXCEPT ![i] = req],
                            ret |-> RaiseAlready]
                      ELSE [data |-> [data EXCEPT ![i] = req],
                            ret |-> RetFalse]
             ELSE [data |-> Append(data, req), ret |-> RetTrue]

\* Requirementz.add_line(line): the list afterwards and what the call
\* returned or raised.
add_line(data, line) ==
    IF parse_raises(line)
    THEN [data |-> data, ret |-> RaiseInvalid]
    ELSE LET req == parse(line)
         IN  IF name_matches(data, req) # {}
             THEN LET i == add_line_found(data, req)
                  IN  IF __eq__(req, data[i])
                      THEN [data |-> data, ret |-> RaiseAlready]
                      ELSE [data |-> [data EXCEPT ![i] = req],
                            ret |-> RetFalse]
             ELSE [data |-> Append(data, req), ret |-> RetTrue]

\* dict.__setitem__ on a dict kept as a list of (key, value) in insertion
\* order: an entry whose key has the same hash and is == gets the value (and
\* keeps its key), otherwise a new entry is added.
dict_set(d, key, value) ==
    IF \E i \in DOMAIN d : __hash__(d[i].key) = __hash__(key) /\ __eq__(d[i].key, key)
    THEN LET i == CHOOSE i \in DOMAIN d :
                      __hash__(d[i].key) = __hash__(key) /\ __eq__(d[i].key, key)
         IN  [d EXCEPT ![i].value = value]
    ELSE Append(d, [key |-> key, value |-> value])

\* The loop of duplicates() over names[:k].
RECURSIVE duplicates_loop(_, _)
duplicates_loop(data, k) ==
    IF k = 0 THEN <<>>
    ELSE LET d == duplicates_loop(data, k - 1)
             name == names(data)[k]
             namecount == count(names(data), name)
         IN  IF namecount = 1 THEN d
             ELSE dict_set(d, get_byname(data, name), namecount - 1)

\* Requirementz.duplicates()
duplicates(data) == duplicates_loop(data, Len(data))

---------------------------------------------------------------------------
(* The requirement lines of the model. *)

NameA == <<65>>
Namea == <<97>>
NameB == <<66>>
ExtraX == <<120>>

\* "1.0" and "2.0"
V10 == ver_str(<<1, 0>>)
V20 == ver_str(<<2, 0>>)

\* "== 1.0";  ">= 1.0,<= 2.0";  the same two pairs the other way round.
SpecsEq == << <<OP_EQ, V10>> >>
SpecsRange == << <<OP_GE, V10>>, <<OP_LE, V20>> >>
SpecsRangeRev == << <<OP_LE, V20>>, <<OP_GE, V10>> >>

\* "A == 1.0", "A >= 1.0,<= 2.0", "A <= 2.0,>= 1.0", "a == 1.0", "B == 1.0"
\* and "A[x] " (extras, no version constraint).
ReqLines ==
    {Line("req", NameA, <<>>, SpecsEq),
     Line("req", NameA, <<>>, SpecsRange),
     Line("req", NameA, <<>>, SpecsRangeRev),
     Line("req", Namea, <<>>, SpecsEq),
     Line("req", NameB, <<>>, SpecsEq),
     Line("req", NameA, <<ExtraX>>, <<>>)}

\* The lines given to add_line.
AddLines == ReqLines \cup {BadLine}

\* The requirements files read: up to MaxFileLines well-formed lines.
Files == UNION {[1..n -> ReqLines] : n \in 0..MaxFileLines}

---------------------------------------------------------------------------
(* Values of the variables a specification does not use. *)

NoLast == [op |-> "init", arg |-> BadLine, before |-> <<>>, ret |-> "None"]
NoCmp == [ver1 |-> <<>>, op |-> <<>>, ver2 |-> <<>>, result |-> "none"]
NoPkgs == <<>>
NoStatus == [req |-> NoReq, pc |-> "none"]
\* No file at a path (no file holds a line with this code point).
Absent == << <<-1>> >>
NoWriter ==
    [pc |-> "none", n |-> 0, backup |-> FALSE, f |-> "None", exc |-> "None",
     at |-> "", reported |-> "", before |-> Absent, content |-> <<>>]
\* No command is running on the requirements file.
NoCommand ==
    [op |-> "none", pc |-> "none", lines |-> <<>>, i |-> 0, ret |-> "None",
     at |-> "", before |-> Absent, bak_before |-> Absent, parsed |-> <<>>, run |-> 0,
     sorted |-> FALSE]
\* No batch over packages is running.
NoBatch ==
    [op |-> "none", pc |-> "none", names |-> <<>>, asked |-> <<>>, i |-> 0,
     errs |-> 0, exc |-> "None"]

---------------------------------------------------------------------------
(* The collection: construction, add_line, duplicates. *)

InitColl ==
    /\ \/ reqs = <<>> /\ origin = "new"
       \/ \E lines \in Files : reqs = from_lines(lines) /\ origin = "file"
    /\ last = NoLast
    /\ dupes = <<>>
    /\ cmp = NoCmp
    /\ PKGS = NoPkgs
    /\ status = NoStatus
    /\ target = Absent
    /\ bak = Absent
    /\ sw = NoWriter
    /\ kept = Absent
    /\ cmd = NoCommand
    /\ batch = NoBatch

\* reqs.add_line(line)
DoAddLine ==
    \E line \in AddLines :
        LET r == add_line(reqs, line)
        IN  /\ Len(r.data) <= MaxReqs
            /\ reqs' = r.data
            /\ last' = [op |-> "add_line", arg |-> line, before |-> reqs,
                        ret |-> r.ret]
            /\ UNCHANGED <<dupes, cmp, PKGS, status, target, bak, sw, origin, kept, cmd, batch>>

\* reqs.duplicates()
DoDuplicates ==
    /\ dupes' = duplicates(reqs)
    /\ last' = [op |-> "duplicates", arg |-> BadLine, before |-> reqs,
                ret |-> "dict"]
    /\ UNCHANGED <<reqs, cmp, PKGS, status, target, bak, sw, origin, kept, cmd, batch>>

Next == DoAddLine \/ DoDuplicates

Spec == InitColl /\ [][Next]_vars

---------------------------------------------------------------------------
(* Claims about the collection. *)

\* The requirement the most recent add_line call parsed.
LastReq == parse(last.arg)

SameSpecs(r1, r2) == ToSet(r1.specs) = ToSet(r2.specs)
SameNameNoCase(r1, r2) == str_lower(r1.name) = str_lower(r2.name)

\* C1: whenever add_line is given a line whose name is the name of an
\* existing entry and whose specs are set-equal to that entry's specs, the
\* call raises 'Already a requirement' and leaves the collection as it was.
C1_DuplicateConflict ==
    (/\ last.op = "add_line"
     /\ ~ parse_raises(last.arg)
     /\ \E i \in DOMAIN last.before :
            /\ last.before[i].name = LastReq.name
            /\ SameSpecs(last.before[i], LastReq))
    => (last.ret = RaiseAlready /\ reqs = last.before)

\* C2: when the first entry with the new requirement's name (ignoring case)
\* has different specs, add_line returns False, the length is unchanged, the
\* new requirement is at that entry's index and every other entry is as it
\* was; when no entry has the name, add_line returns True and the collection
\* is the old one with the new requirement appended.
C2_ReplaceInPlaceOrAppend ==
    (last.op = "add_line" /\ ~ parse_raises(last.arg)) =>
        LET b == last.before
            m == {i \in DOMAIN b : SameNameNoCase(b[i], LastReq)}
        IN  /\ (m = {}) => (last.ret = RetTrue /\ reqs = Append(b, LastReq))
            /\ (last.ret = RetTrue) => (m = {})
            /\ (last.ret = RetFalse) =>
                   \E i \in m :
                       /\ ~ SameSpecs(b[i], LastReq)
                       /\ Len(reqs) = Len(b)
                       /\ reqs[i] = LastReq
                       /\ \A j \in DOMAIN b : j # i => reqs[j] = b[j]
            /\ (m # {} /\ \A i \in m : ~ SameSpecs(b[i], LastReq))
                   => last.ret = RetFalse

\* C2 witness: a replacement in the middle of a collection of three, the
\* names differing in case.
C2_Witness ==
    /\ last.op = "add_line"
    /\ last.ret = RetFalse
    /\ Len(reqs) = 3
    /\ reqs[2] = LastReq
    /\ last.before[2] # LastReq
    /\ last.before[2].name # LastReq.name
    /\ reqs[1] = last.before[1]
    /\ reqs[3] = last.before[3]

\* C3 as stated: starting from the empty collection, no two entries have
\* set-equal specs.
C3_NoTwoEntriesSameSpecs ==
    (origin = "new") =>
        \A i, j \in DOMAIN reqs : i # j => ~ SameSpecs(reqs[i], reqs[j])

\* C3 amended: starting from the empty collection, no two entries of the
\* same name (ignoring case) have set-equal specs.
C3_NoTwoEntriesSameNameAndSpecs ==
    (origin = "new") =>
        \A i, j \in DOMAIN reqs :
            (i # j /\ SameNameNoCase(reqs[i], reqs[j]))
                => ~ SameSpecs(reqs[i], reqs[j])

\* C3 witness: from the empty collection, an add of a structural duplicate
\* of an entry of the same name (differing in case) was rejected, while two
\* entries of different names hold the same specs.
C3_Witness ==
    /\ origin = "new"
    /\ last.op = "add_line"
    /\ last.ret = RaiseAlready
    /\ \E i \in DOMAIN reqs :
           /\ SameNameNoCase(reqs[i], LastReq)
           /\ reqs[i].name # LastReq.name
           /\ SameSpecs(reqs[i], LastReq)
    /\ Len(reqs) >= 2

\* The number of entries named n.
NameCount(n) == Cardinality({i \in DOMAIN reqs : reqs[i].name = n})

\* The first entry named n.
FirstNamed(n) ==
    reqs[CHOOSE i \in DOMAIN reqs :
             reqs[i].name = n /\ \A j \in DOMAIN reqs : reqs[j].name = n => i <= j]

C16_FailedAddLeavesCollection ==
    (last.op = "add_line" /\ last.ret \in {RaiseInvalid, RaiseAlready})
        => reqs = last.before

\* C16 witness: an add rejected as already present by an entry whose name
\* differs in case from the line's, in a collection of two or more.
C16_Witness ==
    /\ last.op = "add_line"
    /\ last.ret = RaiseAlready
    /\ Len(reqs) >= 2
    /\ reqs = last.before
    /\ \E i \in DOMAIN reqs :
           /\ SameNameNoCase(reqs[i], LastReq)
           /\ reqs[i].name # LastReq.name

\* No two entries of the collection share a name ignoring case.
NoCaseDup(data) ==
    \A i, j \in DOMAIN data :
        i # j => str_lower(data[i].name) # str_lower(data[j].name)

\* C19: from a collection in which no two names are equal ignoring case
\* (the empty one included), every add_line call leaves a collection in
\* which no two names are equal ignoring case, and duplicates() called on
\* such a collection returns the empty dict.
C19_AddLineKeepsNamesUnique ==
    [][NoCaseDup(reqs) =>
           /\ NoCaseDup(reqs')
           /\ (last'.op = "duplicates" => dupes' = <<>>)]_vars

\* C19 witness: duplicates() returned the empty dict on a collection of two
\* entries, names 'a' and 'B', that add_line calls built from the empty
\* collection.
C19_Witness ==
    /\ origin = "new"
    /\ last.op = "duplicates"
    /\ dupes = <<>>
    /\ Len(reqs) = 2
    /\ NoCaseDup(reqs)
    /\ \E i \in DOMAIN reqs : reqs[i].name = Namea
    /\ \E i \in DOMAIN reqs : reqs[i].name = NameB

---------------------------------------------------------------------------
(* compare_versions on version strings. *)

\* The numeric segments of the model's version strings.
SegVals == 0..2

\* All numeric version strings with 1..MaxSegs segments: "0" .. "2.2.2".
Versions == {ver_str(t) : t \in UNION {[1..n -> SegVals] : n \in 1..MaxSegs}}

\* The operators given to compare_versions: the five known and "!=".
Ops == KnownOps \cup {OP_NE}

BoolStr(b) == IF b THEN "True" ELSE "False"

InitVersions ==
    /\ \E v1 \in Versions, op \in Ops, v2 \in Versions :
           cmp = [ver1 |-> v1, op |-> op, ver2 |-> v2, result |-> "pending"]
    /\ reqs = <<>>
    /\ origin = "new"
    /\ last = NoLast
    /\ dupes = <<>>
    /\ PKGS = NoPkgs
    /\ status = NoStatus
    /\ target = Absent
    /\ bak = Absent
    /\ sw = NoWriter
    /\ kept = Absent
    /\ cmd = NoCommand
    /\ batch = NoBatch

\* RequirementPlus.compare_versions(ver1, op, ver2)
DoCompareVersions ==
    /\ cmp.result = "pending"
    /\ cmp' = [cmp EXCEPT
                 !.result = BoolStr(compare_versions(cmp.ver1, cmp.op, cmp.ver2))]
    /\ UNCHANGED <<reqs, last, dupes, PKGS, status, target, bak, sw, origin, kept, cmd, batch>>

NextVersions == DoCompareVersions

SpecVersions == InitVersions /\ [][NextVersions]_vars

\* The tuple t padded with zeros to length n.
PadZeros(t, n) == [i \in 1..n |-> IF i <= Len(t) THEN t[i] ELSE 0]

Max(a, b) == IF a >= b THEN a ELSE b

\* The order of two tuples of the same length: the first differing segment
\* decides.
PaddedLess(a, b) ==
    \E i \in DOMAIN a :
        a[i] < b[i] /\ \A j \in 1..(i - 1) : a[j] = b[j]

\* The comparison C10 describes: the segments of both versions padded with
\* zeros to equal length, then compared as tuples; an unknown operator
\* compares as ">=".
PaddedCompare(v1, op, v2) ==
    LET n == Max(Len(release(v1)), Len(release(v2)))
        a == PadZeros(release(v1), n)
        b == PadZeros(release(v2), n)
    IN  CASE op = OP_EQ -> a = b
          [] op = OP_GT -> PaddedLess(b, a)
          [] op = OP_LT -> PaddedLess(a, b)
          [] op = OP_LE -> ~ PaddedLess(b, a)
          [] OTHER -> ~ PaddedLess(a, b)

\* C10: compare_versions compares the versions as zero-padded tuples of
\* numeric segments: == is tuple equality, >=, <=, >, < tuple ordering, any
\* other operator behaves as >=.  In particular ("1.0.1", ">=", "1.0.0") is
\* true, ("2.0.0", "<=", "1.0.0") is false and ("1.0", "==", "1.0.0") is true.
C10_CompareVersionsPadded ==
    (cmp.result \in {"True", "False"}) =>
        /\ cmp.result = BoolStr(PaddedCompare(cmp.ver1, cmp.op, cmp.ver2))
        /\ (cmp.ver1 = ver_str(<<1, 0, 1>>) /\ cmp.op = OP_GE
                /\ cmp.ver2 = ver_str(<<1, 0, 0>>)) => cmp.result = "True"
        /\ (cmp.ver1 = ver_str(<<2, 0, 0>>) /\ cmp.op = OP_LE
                /\ cmp.ver2 = ver_str(<<1, 0, 0>>)) => cmp.result = "False"
        /\ (cmp.ver1 = ver_str(<<1, 0>>) /\ cmp.op = OP_EQ
                /\ cmp.ver2 = ver_str(<<1, 0, 0>>)) => cmp.result = "True"

\* C10 witness: "1.0" == "1.0.0" was compared and found true.
C10_Witness ==
    /\ cmp.ver1 = <<49, 46, 48>>
    /\ cmp.op = OP_EQ
    /\ cmp.ver2 = <<49, 46, 48, 46, 48>>
    /\ cmp.result = "True"

---------------------------------------------------------------------------
(* The installed package snapshot and StatusLine. *)

\* An installed distribution, as pip reports it.
Dist(project_name, version, location) ==
    [project_name |-> project_name, version |-> version, location |-> location]

\* PKGS.get(key, None) finds nothing.
NoDist == Dist(<<>>, <<>>, "None")

\* load_packages(): {p.project_name.lower(): p for p in dists}
load_packages(dists) ==
    [key \in {str_lower(p.project_name) : p \in dists} |->
        CHOOSE p \in dists : str_lower(p.project_name) = key]

\* PKGS.get(key, None)
PKGS_get(pkgs, key) == IF key \in DOMAIN pkgs THEN pkgs[key] ELSE NoDist

\* RequirementPlus.installed_version(): the requirement `project_name == ver`
\* of the installed package, NoReq (None) when it is not installed.
installed_version(self, pkgs) ==
    LET p == PKGS_get(pkgs, str_lower(self.name))
    IN  IF p = NoDist THEN NoReq
        ELSE [name |-> p.project_name, extras |-> <<>>,
              specs |-> << <<OP_EQ, p.version>> >>]

\* satisfied() requiring every (op, ver) pair to hold.
satisfied_all_of(self, pkgs) ==
    LET againstreq == installed_version(self, pkgs)
    IN  IF againstreq = NoReq THEN FALSE
        ELSE \A a \in DOMAIN againstreq.specs :
                 \A i \in DOMAIN self.specs :
                     compare_versions(againstreq.specs[a][2],
                                      self.specs[i][1], self.specs[i][2])

\* RequirementPlus.satisfied(against=None)
satisfied(self, pkgs) ==
    LET againstreq == installed_version(self, pkgs)
    IN  IF againstreq = NoReq THEN FALSE
        ELSE \E a \in DOMAIN againstreq.specs :
                 \E i \in DOMAIN self.specs :
                     compare_versions(againstreq.specs[a][2],
                                      self.specs[i][1], self.specs[i][2])

\* No installed version (installverstr = None).
NoVer == <<-1>>

\* StatusLine.__init__(req): the fields of the status line.  `satisfied` is
\* the value of req.satisfied() where __init__ tests it.
StatusLine(req, pkgs) ==
    LET installedver == installed_version(req, pkgs)
        includedvers == {req.specs[i][2] : i \in
                            {j \in DOMAIN req.specs :
                                 str_endswith(req.specs[j][1], 61)}}
        installverstr == IF installedver = NoReq THEN NoVer
                         ELSE installedver.specs[1][2]
        sat == installedver # NoReq /\ satisfied(req, pkgs)
        pkg == PKGS_get(pkgs, req.name)
    IN  [req |-> req,
         pc |-> "done",
         installverstr |-> installverstr,
         satisfied |-> sat,
         error |-> ~ sat,
         errstatus |-> IF ~ sat THEN "!"
                       ELSE IF installverstr \in includedvers THEN " "
                       ELSE "-",
         pkg_location |-> pkg.location]

\* The installed distributions of the model.
Distributions ==
    {Dist(n, v, "/site") : n \in {NameA, Namea, NameB}, v \in {V10, V20}}

\* The sets of distributions pip can report: one per project.
Installs ==
    {D \in SUBSET Distributions :
        \A p, q \in D :
            str_lower(p.project_name) = str_lower(q.project_name) => p = q}

\* The (op, ver) pairs and requirements a status is built for.
StatusPairs == {<<op, v>> : op \in {OP_EQ, OP_GE, OP_LT}, v \in {V10, V20}}
StatusSpecs == UNION {[1..n -> StatusPairs] : n \in 0..MaxSpecs}
StatusReqs ==
    {[name |-> n, extras |-> <<>>, specs |-> s] :
        n \in {NameA, Namea, NameB}, s \in StatusSpecs}

NewStatus(req) ==
    [req |-> req, pc |-> "new", installverstr |-> NoVer, satisfied |-> FALSE,
     error |-> FALSE, errstatus |-> "", pkg_location |-> "None"]

InitStatus ==
    /\ \E D \in Installs : PKGS = load_packages(D)
    /\ \E r \in StatusReqs : status = NewStatus(r)
    /\ reqs = <<>>
    /\ origin = "new"
    /\ last = NoLast
    /\ dupes = <<>>
    /\ cmp = NoCmp
    /\ target = Absent
    /\ bak = Absent
    /\ sw = NoWriter
    /\ kept = Absent
    /\ cmd = NoCommand
    /\ batch = NoBatch

\* StatusLine(r)
DoStatusLine ==
    /\ status.pc = "new"
    /\ status' = StatusLine(status.req, PKGS)
    /\ UNCHANGED <<reqs, last, dupes, cmp, PKGS, target, bak, sw, origin, kept, cmd, batch>>

NextStatus == DoStatusLine

SpecStatus == InitStatus /\ [][NextStatus]_vars

\* Some (op, ver) pair of the requirement holds for the version v.
AnySpecHolds(req, v) ==
    \E i \in DOMAIN req.specs :
        compare_versions(v, req.specs[i][1], req.specs[i][2])

\* C8: a requirement whose lowercased name is not in the snapshot is not
\* installed and has the error flag; an installed one is satisfied iff at
\* least one of its (op, ver) pairs holds for the installed version (so with
\* no specs it is not satisfied), and has the error flag iff not satisfied.
C8_SatisfiedAnyOf ==
    (status.pc = "done") =>
        LET key == str_lower(status.req.name)
        IN  /\ (key \notin DOMAIN PKGS) =>
                   (status.installverstr = NoVer /\ status.error)
            /\ (key \in DOMAIN PKGS) =>
                   /\ status.installverstr = PKGS[key].version
                   /\ status.satisfied = AnySpecHolds(status.req, PKGS[key].version)
                   /\ status.error = ~ status.satisfied
                   /\ (status.req.specs = <<>>) => ~ status.satisfied

\* C8 witness: an installed requirement, looked up by its lowercased name,
\* with two pairs of which one holds and one does not, and no error flag.
C8_Witness ==
    /\ status.pc = "done"
    /\ status.req.name # str_lower(status.req.name)
    /\ str_lower(status.req.name) \in DOMAIN PKGS
    /\ Len(status.req.specs) = 2
    /\ \E i, j \in 1..2 :
           /\ compare_versions(status.installverstr,
                               status.req.specs[i][1], status.req.specs[i][2])
           /\ ~ compare_versions(status.installverstr,
                                 status.req.specs[j][1], status.req.specs[j][2])
    /\ status.satisfied
    /\ ~ status.error

\* C20: a status whose installed version was found (the lowercased name is
\* in the snapshot) carries that package's location, and the location is
\* absent only when the requirement is not installed.
C20_LocationWheneverInstalled ==
    (status.pc = "done") =>
        LET key == str_lower(status.req.name)
        IN  /\ (key \in DOMAIN PKGS) =>
                   (/\ status.installverstr = PKGS[key].version
                    /\ status.pkg_location = PKGS[key].location)
            /\ (status.pkg_location = "None") => (key \notin DOMAIN PKGS)

---------------------------------------------------------------------------
(* Requirementz.write and SafeWriter. *)

\* A file's content is the sequence of its lines (each ended by a newline).

\* What write() writes: '\n'.join(str(r) for r in sorted by name), then '\n'.
\* For the empty collection that is a single empty line.
write_text(data) ==
    LET s == sorted_by_name(data)
    IN  IF Len(s) = 0 THEN << <<>> >>
        ELSE [i \in DOMAIN s |-> to_str(s[i])]

\* What a file holds when writing text to it stopped part-way.
Prefixes(text) == {SubSeq(text, 1, k) : k \in 0..Len(text)}

\* SafeWriter.__init__(filename, 'w'), the n-th writer; `before` is what the
\* target held when the writer was made and `content` what the with-body
\* writes.
SafeWriter(n, tgt, content) ==
    [pc |-> "enter", n |-> n, backup |-> FALSE, f |-> "None", exc |-> "None",
     at |-> "", reported |-> "", before |-> tgt, content |-> content]

Raise(w, exc, at) == [w EXCEPT !.pc = "raised", !.exc = exc, !.at = at]

\* file_backup going on to open the target although the copy failed.
file_backup_swallows(w, tgt, bk, ok, partial) ==
    IF tgt = Absent THEN [sw |-> [w EXCEPT !.pc = "backed"], bak |-> bk]
    ELSE IF ok
    THEN [sw |-> [w EXCEPT !.pc = "backed", !.backup = TRUE], bak |-> tgt]
    ELSE [sw |-> [w EXCEPT !.pc = "backed"], bak |-> partial]

\* SafeWriter.file_backup(): no target, no backup; otherwise copy2 either
\* copies the target to <target>.bak, or fails (leaving at <target>.bak what
\* it had got to: `partial`) and FatalError is raised.
file_backup(w, tgt, bk, ok, partial) ==
    IF tgt = Absent THEN [sw |-> [w EXCEPT !.pc = "backed"], bak |-> bk]
    ELSE IF ok
    THEN [sw |-> [w EXCEPT !.pc = "backed", !.backup = TRUE], bak |-> tgt]
    ELSE [sw |-> Raise(w, "FatalError", "file_backup"), bak |-> partial]

\* file_backup_remove leaving the backup file where it is.
file_backup_remove_keeps(w, bk, ok) ==
    [sw |-> [w EXCEPT !.pc = "done"], bak |-> bk]

\* SafeWriter.file_backup_remove(): with no file at <target>.bak it reads
\* self.backed_up, an attribute no SafeWriter has (AttributeError);
\* otherwise os.remove removes the file, or fails and FatalError is raised.
file_backup_remove(w, bk, ok) ==
    IF bk = Absent
    THEN [sw |-> Raise(w, "AttributeError", "file_backup_remove"), bak |-> bk]
    ELSE IF ok THEN [sw |-> [w EXCEPT !.pc = "done"], bak |-> Absent]
    ELSE [sw |-> Raise(w, "FatalError", "file_backup_remove"), bak |-> bk]

\* __exit__ removing the backup whether or not the body raised.
__exit___always_removes(w, bk, ok) ==
    IF w.pc = "written" THEN file_backup_remove([w EXCEPT !.f = "closed"], bk, ok)
    ELSE [sw |-> [Raise(w, "EnvironmentError", "write") EXCEPT !.f = "closed"],
          bak |-> Absent]

\* SafeWriter.__exit__(extype, val, tb): closes the file; after a body that
\* did not raise it removes the backup, after one that raised it reports the
\* backup (or that there is none) and lets the exception through.
__exit__(w, bk, ok) ==
    IF w.pc = "written" THEN file_backup_remove([w EXCEPT !.f = "closed"], bk, ok)
    ELSE [sw |-> [Raise(w, "EnvironmentError", "write") EXCEPT
                     !.f = "closed",
                     !.reported = IF w.backup THEN "A backup file was saved"
                                  ELSE "No backup was saved!"],
          bak |-> bk]

\* The collections written: empty, one entry, two entries out of name order.
WriteColls ==
    {<<>>,
     <<parse(Line("req", NameA, <<>>, SpecsEq))>>,
     <<parse(Line("req", NameB, <<>>, SpecsEq)),
       parse(Line("req", NameA, <<>>, SpecsRange))>>}

\* What the target and <target>.bak may hold before the first write.
TargetFiles == {Absent} \cup {write_text(c) : c \in WriteColls}
BakFiles == {Absent, write_text(<<>>)}

InitWriter ==
    /\ target \in TargetFiles
    /\ bak \in BakFiles
    /\ sw = NoWriter
    /\ kept = Absent
    /\ cmd = NoCommand
    /\ batch = NoBatch
    /\ reqs = <<>>
    /\ origin = "new"
    /\ last = NoLast
    /\ dupes = <<>>
    /\ cmp = NoCmp
    /\ PKGS = NoPkgs
    /\ status = NoStatus

\* reqs.write(filename): `with SafeWriter(filename, 'w') as f:` is reached.
StartWrite ==
    /\ sw.pc \in {"none", "done", "raised"}
    /\ sw.n < MaxWrites
    /\ \E data \in WriteColls :
           /\ reqs' = data
           /\ sw' = SafeWriter(sw.n + 1, target, write_text(data))
    /\ UNCHANGED <<last, dupes, cmp, PKGS, status, target, bak, origin, kept, cmd, batch>>

\* SafeWriter.__enter__, first half: self.file_backup()
EnterFileBackup ==
    /\ sw.pc = "enter"
    /\ \E ok \in BOOLEAN, partial \in {bak} \cup Prefixes(target) :
           LET r == file_backup(sw, target, bak, ok, partial)
           IN  sw' = r.sw /\ bak' = r.bak
    /\ UNCHANGED <<reqs, last, dupes, cmp, PKGS, status, target, origin, kept, cmd, batch>>

\* SafeWriter.__enter__, second half: open(self.filename, mode='w') truncates
\* or creates the target, or raises (then __exit__ is not called).
EnterOpen ==
    /\ sw.pc = "backed"
    /\ \/ /\ target' = <<>>
          /\ sw' = [sw EXCEPT !.pc = "opened", !.f = "open"]
       \/ /\ sw' = Raise(sw, "EnvironmentError", "open")
          /\ UNCHANGED target
    /\ UNCHANGED <<reqs, last, dupes, cmp, PKGS, status, bak, origin, kept, cmd, batch>>

\* The with-body of write(): the two f.write calls.  Either all of the text
\* gets written, or an exception stops it part-way.
WriteBody ==
    /\ sw.pc = "opened"
    /\ \/ /\ target' = sw.content
          /\ sw' = [sw EXCEPT !.pc = "written"]
       \/ /\ target' \in Prefixes(sw.content)
          /\ sw' = [sw EXCEPT !.pc = "failed"]
    /\ UNCHANGED <<reqs, last, dupes, cmp, PKGS, status, bak, origin, kept, cmd, batch>>

\* SafeWriter.__exit__
Exit ==
    /\ sw.pc \in {"written", "failed"}
    /\ \E ok \in BOOLEAN :
           LET r == __exit__(sw, bak, ok)
           IN  /\ sw' = r.sw
               /\ bak' = r.bak
               /\ kept' = IF sw.pc = "failed" /\ sw.backup THEN r.bak ELSE kept
    /\ UNCHANGED <<reqs, last, dupes, cmp, PKGS, status, target, origin, cmd, batch>>

NextWriter == StartWrite \/ EnterFileBackup \/ EnterOpen \/ WriteBody \/ Exit

SpecWriter == InitWriter /\ [][NextWriter]_vars

\* The writer has exited with the exception its with-body raised, having
\* made a backup of an existing target.
WriteFailedAfterBackup ==
    sw.pc = "raised" /\ sw.at = "write" /\ sw.before # Absent /\ sw.backup

\* C4 as stated: after an exception during the write, past the backup, the
\* target holds its pre-write content and a file is at <target>.bak.
C4_TargetIntactAfterFailedWrite ==
    WriteFailedAfterBackup => (target = sw.before /\ bak # Absent)

\* C4 amended: after an exception during the write, past the backup, the
\* file at <target>.bak holds the target's pre-write content; the target was
\* truncated by the open and holds what had been written of the new text.
C4_BackupHoldsOriginalAfterFailedWrite ==
    WriteFailedAfterBackup =>
        (bak = sw.before /\ target \in Prefixes(sw.content))

\* C4 witness: a write of new text failed past the backup; the target lost
\* its content and the backup holds it.
C4_Witness ==
    /\ WriteFailedAfterBackup
    /\ sw.reported = "A backup file was saved"
    /\ target # sw.before
    /\ bak = sw.before

\* C5: once a failed write has left a backup behind, <target>.bak keeps that
\* content through every later write.
C5_RetainedBackupNeverLost ==
    (kept # Absent) => (bak = kept)

C7_NoBackupAfterCommit ==
    (sw.pc = "done") => (bak = Absent)

\* C7 witness: a write over an existing target completed; its backup was made
\* and is gone.
C7_Witness ==
    /\ sw.pc = "done"
    /\ sw.before # Absent
    /\ sw.backup
    /\ target = sw.content
    /\ target # sw.before
    /\ bak = Absent

\* C17: a write to a target that does not exist, with no file at
\* <target>.bak, makes no backup, writes the target, and raises nothing
\* (an error can only come from the open or the write itself failing).
C17_NewTargetWrittenWithoutError ==
    (sw.before = Absent /\ bak = Absent) =>
        /\ ~ sw.backup
        /\ (sw.pc = "written") => (target = sw.content)
        /\ (sw.pc = "raised") => (sw.at \in {"open", "write"})

---------------------------------------------------------------------------
(* The text of requirement lines, as requirements-parser reads it. *)

\* str.strip() of blanks.
RECURSIVE str_strip(_)
str_strip(s) ==
    IF Len(s) > 0 /\ s[1] = 32 THEN str_strip(Tail(s))
    ELSE IF Len(s) > 0 /\ s[Len(s)] = 32
    THEN str_strip(SubSeq(s, 1, Len(s) - 1))
    ELSE s

\* s.split(c) for a one-character separator.
RECURSIVE str_split(_, _)
str_split(s, c) ==
    IF \A i \in DOMAIN s : s[i] # c THEN <<s>>
    ELSE LET k == CHOOSE i \in DOMAIN s :
                      s[i] = c /\ \A j \in 1..(i - 1) : s[j] # c
         IN  <<SubSeq(s, 1, k - 1)>> \o str_split(SubSeq(s, k + 1, Len(s)), c)

\* The characters of a project name, and of a comparison operator.
NameChars == (48..57) \cup (65..90) \cup (97..122) \cup {45, 46, 95}
OpChars == {33, 60, 61, 62}

\* The length of the longest prefix of s made of characters of S.
prefix_len(s, S) == Cardinality({k \in DOMAIN s : \A j \in 1..k : s[j] \in S})

\* One `op ver` piece of a line: the pair (op, ver).
text_spec(piece) ==
    LET p == str_strip(piece)
        n == prefix_len(p, OpChars)
    IN  <<SubSeq(p, 1, n), str_strip(SubSeq(p, n + 1, Len(p)))>>

\* What RequirementPlus.parse makes of a line of text: a standard entry
\* `name[extras] op ver, op ver` is kind "req"; a line with no name (a blank
\* line, a comment line, "=="), an unclosed extras list, an unknown operator
\* or an empty version is kind "bad" (ValueError).
text_line(text) ==
    LET t == str_strip(text)
        n == prefix_len(t, NameChars)
        rest == SubSeq(t, n + 1, Len(t))
        hasx == Len(rest) > 0 /\ rest[1] = 91
        close == IF hasx /\ \E i \in DOMAIN rest : rest[i] = 93
                 THEN CHOOSE i \in DOMAIN rest :
                          rest[i] = 93 /\ \A j \in 1..(i - 1) : rest[j] # 93
                 ELSE 0
        exs == IF close > 2 THEN str_split(SubSeq(rest, 2, close - 1), 44)
               ELSE <<>>
        tail == str_strip(SubSeq(rest, close + 1, Len(rest)))
        pieces == IF Len(tail) = 0 THEN <<>> ELSE str_split(tail, 44)
        specs == [i \in DOMAIN pieces |-> text_spec(pieces[i])]
    IN  IF /\ n > 0
           /\ hasx => close > 0
           /\ \A i \in DOMAIN specs :
                  specs[i][1] \in KnownOps \cup {OP_NE} /\ Len(specs[i][2]) > 0
        THEN Line("req", SubSeq(t, 1, n),
                  [i \in DOMAIN exs |-> str_strip(exs[i])], specs)
        ELSE Line("bad", text, <<>>, <<>>)

\* sorted(lines) on the text read from a file.
sorted_text(content) ==
    LET p == sort_perm(content)
    IN  [i \in DOMAIN content |-> content[p[i]]]

\* Requirementz.from_file raises ValueError: a line of the file does not
\* parse.
from_file_raises(content) ==
    \E i \in DOMAIN content : parse_raises(text_line(content[i]))

\* Requirementz.from_file(filename) on a file holding the lines `content`.
from_file(content) ==
    LET s == sorted_text(content)
    IN  [i \in DOMAIN s |-> parse(text_line(s[i]))]

\* The lines from_lines gave to RequirementPlus.parse, in order: all of them
\* up to the first that raises.
from_file_parsed(content) ==
    LET s == sorted_text(content)
        bad == {i \in DOMAIN s : parse_raises(text_line(s[i]))}
    IN  IF bad = {} THEN s
        ELSE SubSeq(s, 1, CHOOSE i \in bad : \A j \in bad : i <= j)

---------------------------------------------------------------------------
(* The commands on the requirements file: --sort and --add. *)

\* Longest requirements file a command starts from.
MaxCmdLines == 2
\* Most lines given to one --add command.
MaxBatch == 2
\* Most commands run one after the other on the file.
MaxRuns == 2

\* "B == 1.0", "B[x] ", "A == 1.0" as to_str writes them; "B<1.0" as a user
\* writes it; an empty line; the comment "# x"; and "==".
TextBEq == to_str(parse(Line("req", NameB, <<>>, SpecsEq)))
TextBx == to_str(parse(Line("req", NameB, <<ExtraX>>, <<>>)))
TextAEq == to_str(parse(Line("req", NameA, <<>>, SpecsEq)))
TextBTight == NameB \o OP_LT \o V10
TextBlank == <<>>
TextComment == <<35, 32, 120>>
TextBad == line_text(BadLine)

\* The lines of the requirements files the commands start from, and the
\* files: up to MaxCmdLines different lines, in any order.
FileTexts == {TextBEq, TextBx, TextBTight, TextBlank, TextComment}
CmdFiles ==
    {f \in UNION {[1..n -> FileTexts] : n \in 0..MaxCmdLines} :
        \A i, j \in DOMAIN f : i # j => f[i] # f[j]}

\* The lines given to --add.
AddTexts == {TextAEq, TextBEq, TextBad}
Batches == UNION {[1..n -> AddTexts] : n \in 1..MaxBatch}

\* main(argd) with --add or --sort: the command, before its first step.
Command(op, lines, run, tgt, bk, wassorted) ==
    [op |-> op, pc |-> IF op = "add" THEN "start" ELSE "ensured",
     lines |-> lines, i |-> 0, ret |-> "None", at |-> "",
     before |-> tgt, bak_before |-> bk, parsed |-> <<>>, run |-> run,
     sorted |-> wassorted]

\* The command ends: what main returns (or the exception that leaves it) and
\* the call it ended in.
Returns(c, ret, at) == [c EXCEPT !.pc = "done", !.ret = ret, !.at = at]

\* The add_lines loop going on to the next line after a line that does not
\* parse.
add_lines_step_skips_invalid(c, data) ==
    LET line == text_line(c.lines[c.i + 1])
    IN  IF parse_raises(line)
        THEN [cmd |-> [c EXCEPT !.i = c.i + 1], reqs |-> data]
        ELSE LET r == add_line(data, line)
             IN  IF r.ret \in {RaiseInvalid, RaiseAlready}
                 THEN [cmd |-> Returns(c, "FatalError", "add_line"),
                       reqs |-> r.data]
                 ELSE [cmd |-> [c EXCEPT !.i = c.i + 1], reqs |-> r.data]

\* One round of the loop of add_lines: RequirementPlus.parse(line) failing
\* prints the error and returns 1; reqs.add_line(line) raising ValueError is
\* re-raised as FatalError; otherwise the message is kept and the loop goes
\* on.
add_lines_step(c, data) ==
    LET line == text_line(c.lines[c.i + 1])
    IN  IF parse_raises(line)
        THEN [cmd |-> Returns(c, "1", "parse"), reqs |-> data]
        ELSE LET r == add_line(data, line)
             IN  IF r.ret \in {RaiseInvalid, RaiseAlready}
                 THEN [cmd |-> Returns(c, "FatalError", "add_line"),
                       reqs |-> r.data]
                 ELSE [cmd |-> [c EXCEPT !.i = c.i + 1], reqs |-> r.data]

InitCmd ==
    /\ target \in {Absent} \cup CmdFiles
    /\ bak = Absent
    /\ sw = NoWriter
    /\ kept = Absent
    /\ cmd = NoCommand
    /\ batch = NoBatch
    /\ reqs = <<>>
    /\ origin = "file"
    /\ last = NoLast
    /\ dupes = <<>>
    /\ cmp = NoCmp
    /\ PKGS = NoPkgs
    /\ status = NoStatus

\* The program is started with --sort or with --add LINE...
Main ==
    /\ cmd.pc \in {"none", "exited"}
    /\ cmd.run < MaxRuns
    /\ \/ cmd' = Command("sort", <<>>, cmd.run + 1, target, bak, cmd.sorted)
       \/ \E lines \in Batches :
              cmd' = Command("add", lines, cmd.run + 1, target, bak, cmd.sorted)
    /\ UNCHANGED <<reqs, last, dupes, cmp, PKGS, status, target, bak, sw, origin, kept, batch>>

\* add_lines: file_ensure_exists(filename).  A missing file is created empty
\* when the user answers yes and the creation works; otherwise add_lines
\* returns 1.
FileEnsureExists ==
    /\ cmd.pc = "start"
    /\ \/ /\ target # Absent
          /\ cmd' = [cmd EXCEPT !.pc = "ensured"]
          /\ UNCHANGED target
       \/ /\ target = Absent
          /\ cmd' = Returns(cmd, "1", "file_ensure_exists")
          /\ UNCHANGED target
       \/ /\ target = Absent
          /\ target' = <<>>
          /\ cmd' = [cmd EXCEPT !.pc = "ensured"]
    /\ UNCHANGED <<reqs, last, dupes, cmp, PKGS, status, bak, sw, origin, kept, batch>>

\* reqs = Requirementz.from_file(filename): open fails on a missing file
\* (EnvironmentError), a line that does not parse raises ValueError; both
\* leave main.
FromFile ==
    /\ cmd.pc = "ensured"
    /\ \/ /\ target = Absent
          /\ cmd' = Returns(cmd, "EnvironmentError", "from_file")
          /\ UNCHANGED reqs
       \/ /\ target # Absent
          /\ from_file_raises(target)
          /\ cmd' = [Returns(cmd, "ValueError", "from_file") EXCEPT
                        !.parsed = from_file_parsed(target)]
          /\ UNCHANGED reqs
       \/ /\ target # Absent
          /\ ~ from_file_raises(target)
          /\ cmd' = [cmd EXCEPT !.pc = "loaded",
                                !.parsed = from_file_parsed(target)]
          /\ reqs' = from_file(target)
    /\ UNCHANGED <<last, dupes, cmp, PKGS, status, target, bak, sw, origin, kept, batch>>

\* add_lines: one round of `for line in lines`.
AddLinesNext ==
    /\ cmd.op = "add"
    /\ cmd.pc = "loaded"
    /\ cmd.i < Len(cmd.lines)
    /\ LET r == add_lines_step(cmd, reqs)
       IN  cmd' = r.cmd /\ reqs' = r.reqs
    /\ UNCHANGED <<last, dupes, cmp, PKGS, status, target, bak, sw, origin, kept, batch>>

\* reqs.write(filename=filename), reached by sort_requirements after
\* from_file and by add_lines after its loop.
WriteFile ==
    /\ cmd.pc = "loaded"
    /\ cmd.i = Len(cmd.lines)
    /\ sw' = SafeWriter(cmd.run, target, write_text(reqs))
    /\ cmd' = [cmd EXCEPT !.pc = "writing"]
    /\ UNCHANGED <<reqs, last, dupes, cmp, PKGS, status, target, bak, origin, kept, batch>>

\* write() is over: the command returns 0, or the exception of the writer
\* leaves it (add_lines turns an EnvironmentError into FatalError).
CommandReturns ==
    /\ cmd.pc = "writing"
    /\ sw.pc \in {"done", "raised"}
    /\ cmd' = Returns(cmd,
                      IF sw.pc = "done" THEN "0"
                      ELSE IF cmd.op = "add" /\ sw.exc = "EnvironmentError"
                      THEN "FatalError"
                      ELSE sw.exc,
                      "write")
    /\ UNCHANGED <<reqs, last, dupes, cmp, PKGS, status, target, bak, sw, origin, kept, batch>>

\* The process ends; the files stay.  `sorted` tells the next command that
\* the file is as a completed --sort wrote it.
ProcessExits ==
    /\ cmd.pc = "done"
    /\ cmd' = [NoCommand EXCEPT
                  !.pc = "exited",
                  !.run = cmd.run,
                  !.sorted = IF cmd.op = "sort" /\ cmd.ret = "0" THEN TRUE
                             ELSE target = cmd.before /\ cmd.sorted]
    /\ reqs' = <<>>
    /\ sw' = NoWriter
    /\ UNCHANGED <<last, dupes, cmp, PKGS, status, target, bak, origin, kept, batch>>

NextCmd ==
    \/ Main
    \/ FileEnsureExists
    \/ FromFile
    \/ AddLinesNext
    \/ WriteFile
    \/ EnterFileBackup
    \/ EnterOpen
    \/ WriteBody
    \/ Exit
    \/ CommandReturns
    \/ ProcessExits

SpecCmd == InitCmd /\ [][NextCmd]_vars

---------------------------------------------------------------------------
(* Claims about the commands. *)

\* The order of a requirement's specs among those of another: Python's
\* order on lists of (op, ver) tuples of str; an empty list is smallest.
pair_lt(p, q) == str_lt(p[1], q[1]) \/ (p[1] = q[1] /\ str_lt(p[2], q[2]))
specs_lt(a, b) ==
    \E i \in 1..(Min(Len(a), Len(b)) + 1) :
        /\ \A j \in 1..(i - 1) : a[j] = b[j]
        /\ \/ i > Len(a) /\ i <= Len(b)
           \/ i <= Len(a) /\ i <= Len(b) /\ pair_lt(a[i], b[i])

\* The entries write() serializes, read back from the text the writer was
\* given (an empty collection is written as one empty line).
WrittenEntries ==
    IF reqs = <<>> THEN <<>>
    ELSE [i \in DOMAIN sw.content |-> parse(text_line(sw.content[i]))]

\* The entries of a list that are named n, in the list's order.
Named(data, n) == SelectSeq(data, LAMBDA r : r.name = n)

\* C11 as stated: the entries write() serializes are the collection's, in
\* non-decreasing order of name, and entries of one name are in the order of
\* their specs, an entry without specs before those with specs.
C11_WrittenByNameThenSpecs ==
    (sw.pc # "none") =>
        LET w == WrittenEntries
        IN  /\ Len(w) = Len(reqs)
            /\ \A i, j \in DOMAIN w :
                   i < j =>
                       /\ ~ str_lt(w[j].name, w[i].name)
                       /\ (w[i].name = w[j].name)
                              => ~ specs_lt(w[j].specs, w[i].specs)

\* C11 amended: the entries write() serializes are the collection's, in
\* non-decreasing order of name, and entries of one name are in the order
\* they have in the collection.
C11_WrittenByNameStable ==
    (sw.pc # "none") =>
        LET w == WrittenEntries
        IN  /\ Len(w) = Len(reqs)
            /\ \A i, j \in DOMAIN w : i < j => ~ str_lt(w[j].name, w[i].name)
            /\ \A k \in DOMAIN reqs :
                   Named(w, reqs[k].name) = Named(reqs, reqs[k].name)

\* C11 witness: a collection whose names are out of order was written; the
\* two entries of one name follow the entry that was last in the collection
\* and keep their order, the one without specs after the one with specs.
C11_Witness ==
    /\ sw.pc = "written"
    /\ target = sw.content
    /\ Len(reqs) = 3
    /\ str_lt(reqs[3].name, reqs[1].name)
    /\ reqs[1].name = reqs[2].name
    /\ specs_lt(reqs[2].specs, reqs[1].specs)
    /\ WrittenEntries = <<reqs[3], reqs[1], reqs[2]>>

\* C12: sorting a sorted collection changes nothing, and a --sort of a file
\* that a completed --sort wrote leaves the file's lines in the same order.
C12_SortIdempotent ==
    /\ sorted_by_name(sorted_by_name(reqs)) = sorted_by_name(reqs)
    /\ (cmd.op = "sort" /\ cmd.pc = "done" /\ cmd.ret = "0" /\ cmd.sorted)
           => target = cmd.before

\* A blank line or a comment line.
IsBlankOrComment(text) ==
    LET t == str_strip(text) IN Len(t) = 0 \/ t[1] = 35

\* C14: when a line given to --add does not parse, the other lines of the
\* batch (those that parse, each the only one of its name in the batch) are
\* still added and are in the file when the command is over.
C14_MalformedLineAbortsOnlyItself ==
    (cmd.op = "add" /\ cmd.pc = "done" /\ cmd.at = "parse") =>
        \A k \in DOMAIN cmd.lines :
            LET l == text_line(cmd.lines[k])
            IN  (/\ ~ parse_raises(l)
                 /\ \A m \in DOMAIN cmd.lines :
                        (m # k /\ ~ parse_raises(text_line(cmd.lines[m])))
                            => str_lower(text_line(cmd.lines[m]).name)
                                   # str_lower(l.name))
                => \E j \in DOMAIN target : target[j] = to_str(parse(l))

\* C15: loading a file never gives a blank or comment line to the parser,
\* fails only because of a line that is neither, and yields one entry for
\* each line that is neither.
C15_BlankAndCommentLinesSkipped ==
    LET loaded == cmd.pc = "loaded" /\ cmd.i = 0
        failed == cmd.pc = "done" /\ cmd.at = "from_file"
                  /\ cmd.ret = "ValueError"
    IN  (loaded \/ failed) =>
            /\ \A k \in DOMAIN cmd.parsed : ~ IsBlankOrComment(cmd.parsed[k])
            /\ failed =>
                   \E k \in DOMAIN target :
                       /\ ~ IsBlankOrComment(target[k])
                       /\ parse_raises(text_line(target[k]))
            /\ loaded =>
                   Len(reqs) = Cardinality({k \in DOMAIN target :
                                               ~ IsBlankOrComment(target[k])})

\* add_line accepts every line of the batch, one after the other.
RECURSIVE batch_accepted(_, _)
batch_accepted(data, lines) ==
    IF Len(lines) = 0 THEN TRUE
    ELSE LET r == add_line(data, text_line(Head(lines)))
         IN  /\ r.ret \in {RetTrue, RetFalse}
             /\ batch_accepted(r.data, Tail(lines))

\* C18: during and after an --add on an existing file, a writer was made,
\* or the file or <target>.bak differ from what they were when the command
\* started, only if the file loaded and every line of the batch was
\* accepted.
C18_NothingPersistedUnlessAllAccepted ==
    (cmd.op = "add" /\ cmd.before # Absent) =>
        ((sw.pc # "none" \/ target # cmd.before \/ bak # cmd.bak_before)
            => (/\ ~ from_file_raises(cmd.before)
                /\ batch_accepted(from_file(cmd.before), cmd.lines)))

\* C18 witness: the second line of a batch was rejected as already present
\* after the first was accepted; no writer was made and the file and
\* <target>.bak are as they were.
C18_Witness ==
    /\ cmd.op = "add"
    /\ cmd.pc = "done"
    /\ cmd.at = "add_line"
    /\ cmd.ret = "FatalError"
    /\ cmd.i = 1
    /\ Len(reqs) = Len(cmd.before) + 1
    /\ cmd.before # Absent
    /\ target = cmd.before
    /\ bak = cmd.bak_before
    /\ sw = NoWriter

---------------------------------------------------------------------------
(* Batches over packages that ask the registry: show_package_infos and
   check_requirements(latest=True). *)

\* Most packages of one batch.
MaxPkgs == 2

\* What asking the registry for one package comes to: the JSON data; an
\* HTTP error status; no connection (urllib.error.URLError); bytes that do
\* not decode; text that is not JSON.
RegistryOutcomes ==
    {"data", "HTTPError", "URLError", "UnicodeDecodeError", "JSONError"}

\* get_pypi_info(packagename): "data", or the exception that leaves it.
\* urlopen's HTTPError is re-raised, any other exception of urlopen is not
\* handled; the decode handler calls UnicodeDecodeError with one argument,
\* which raises TypeError (the constructor takes five); json.loads failing
\* is re-raised as ValueError.
get_pypi_info(outcome) ==
    CASE outcome = "data" -> "data"
      [] outcome = "HTTPError" -> "HTTPError"
      [] outcome = "URLError" -> "URLError"
      [] outcome = "UnicodeDecodeError" -> "TypeError"
      [] outcome = "JSONError" -> "ValueError"

\* The exceptions show_package_info catches.
ShowPackageInfoCatches == {"HTTPError", "UnicodeDecodeError", "ValueError"}

\* A batch at its start; `asked` are the registry's answers, one per package.
Batch(op, pkgnames, asked) ==
    [op |-> op, pc |-> "run", names |-> pkgnames, asked |-> asked, i |-> 0,
     errs |-> 0, exc |-> "None"]

\* An exception leaves the batch function.
BatchRaises(b, exc) == [b EXCEPT !.pc = "raised", !.exc = exc]

\* show_package_info(name) inside sum(...): 1 for a caught exception, 0 after
\* printing the info; an exception it does not catch leaves
\* show_package_infos.
show_package_info(b) ==
    LET r == get_pypi_info(b.asked[b.i + 1])
    IN  IF r = "data" THEN [b EXCEPT !.i = b.i + 1]
        ELSE IF r \in ShowPackageInfoCatches
        THEN [b EXCEPT !.i = b.i + 1, !.errs = b.errs + 1]
        ELSE BatchRaises(b, r)

\* One round of the loop of check_requirements(latest=True): the status
\* line's error is counted, then statusline.with_latest() asks the registry,
\* outside any try statement.
check_requirements_step(b, st) ==
    LET counted == [b EXCEPT !.errs = b.errs + (IF st.error THEN 1 ELSE 0)]
        r == get_pypi_info(b.asked[b.i + 1])
    IN  IF r = "data" THEN [counted EXCEPT !.i = b.i + 1]
        ELSE BatchRaises(counted, r)

\* The requirement of a package name in the file check_requirements reads.
BatchReq(n) == [name |-> n, extras |-> <<>>, specs |-> SpecsEq]

BatchNames == UNION {[1..n -> {NameA, NameB}] : n \in 1..MaxPkgs}

InitBatch ==
    /\ \E op \in {"pypi", "checklatest"}, pkgnames \in BatchNames :
           \E asked \in [DOMAIN pkgnames -> RegistryOutcomes] :
               /\ batch = Batch(op, pkgnames, asked)
               /\ reqs = IF op = "checklatest"
                         THEN [k \in DOMAIN pkgnames |-> BatchReq(pkgnames[k])]
                         ELSE <<>>
    /\ \E D \in {{}, {Dist(NameA, V10, "/site")}} : PKGS = load_packages(D)
    /\ status = NoStatus
    /\ origin = "file"
    /\ last = NoLast
    /\ dupes = <<>>
    /\ cmp = NoCmp
    /\ target = Absent
    /\ bak = Absent
    /\ sw = NoWriter
    /\ kept = Absent
    /\ cmd = NoCommand

\* show_package_infos: the next show_package_info(name).
ShowPackageInfo ==
    /\ batch.op = "pypi"
    /\ batch.pc = "run"
    /\ batch.i < Len(batch.names)
    /\ batch' = show_package_info(batch)
    /\ UNCHANGED <<reqs, last, dupes, cmp, PKGS, status, target, bak, sw, origin, kept, cmd>>

\* check_requirements(latest=True): the next requirement of the loop.
CheckRequirement ==
    /\ batch.op = "checklatest"
    /\ batch.pc = "run"
    /\ batch.i < Len(reqs)
    /\ status' = StatusLine(reqs[batch.i + 1], PKGS)
    /\ batch' = check_requirements_step(batch, StatusLine(reqs[batch.i + 1], PKGS))
    /\ UNCHANGED <<reqs, last, dupes, cmp, PKGS, target, bak, sw, origin, kept, cmd>>

\* The batch function returns its count of errors.
BatchReturns ==
    /\ batch.pc = "run"
    /\ batch.i = Len(batch.names)
    /\ batch' = [batch EXCEPT !.pc = "done"]
    /\ UNCHANGED <<reqs, last, dupes, cmp, PKGS, status, target, bak, sw, origin, kept, cmd>>

NextBatch == ShowPackageInfo \/ CheckRequirement \/ BatchReturns

SpecBatch == InitBatch /\ [][NextBatch]_vars

\* C13: in a batch that asks the registry, a transport or decode failure for
\* one package does not end the batch: every package is processed, the batch
\* returns, and each failure is in the count of errors it returns.
C13_RegistryFailureDoesNotAbortBatch ==
    /\ batch.pc # "raised"
    /\ batch.pc = "done" =>
           /\ batch.i = Len(batch.names)
           /\ batch.errs >= Cardinality({k \in DOMAIN batch.asked :
                                            batch.asked[k] # "data"})

====
